---- MODULE Spec2Model ----
(***************************************************************************)
(* beget-cli (bin/beget.js, v1.0.0): the profile store, the credential     *)
(* resolver, secret acquisition (getSecret, the masked prompt), the risk   *)
(* confirmation gate, the remote call invoker (callBeget with its timeout  *)
(* timer) and the command execution pipeline (executeApi), with the auth   *)
(* add / use / remove / list commands that maintain the store.             *)
(*                                                                         *)
(* One invocation of the program is one process: it is started (argv, the  *)
(* environment and the terminal are fixed), runs one command handler and   *)
(* ends with an exit code.  The config file on disk is the only state      *)
(* that survives between invocations.                                      *)
(***************************************************************************)
EXTENDS Naturals, Sequences, FiniteSets, TLC

VARIABLES
    disk,     \* the config file: [kind, activeProfile, profiles]
    cfg,      \* the document readConfig returned to the running invocation
    pc,       \* position of the running invocation
    inv,      \* argv, environment and terminal of the running invocation
    creds,    \* what resolveCredentials returned (or threw)
    out,      \* exit code, stdout and stderr of the invocation
    net,      \* number of fetch() calls issued by the invocation
    timer,    \* the timeout timer of callBeget: unset, armed, cleared, fired
    trace,    \* the invocation's side effects, in the order they happened
    save,     \* one writeConfig, system call by system call
    reader,   \* one promptMasked, read by read
    procs     \* two invocations running at the same time on one config file

vars == <<disk, cfg, pc, inv, creds, out, net, timer, trace, save, reader, procs>>

\* what an invocation taken alone leaves untouched
apart == <<save, reader, procs>>

----------------------------------------------------------------------------
(* JavaScript values *)

UNDEF == "<undefined>"
NULL == "<null>"

\* a ?? b
Nullish(v) == v \in {UNDEF, NULL}
\* faulty variant: the lower tier wins when it is present
CoalesceLowerWins(a, b) == IF Nullish(b) THEN a ELSE b
\* faulty variant: a || b, which also passes over the empty string
CoalesceOr(a, b) == IF Nullish(a) \/ a = "" THEN b ELSE a
Coalesce(a, b) == IF Nullish(a) THEN b ELSE a

\* faulty variant: only null and undefined count as missing
TruthyNotNullish(v) == ~Nullish(v)

\* !!v for a string, null or undefined
Truthy(v) == ~Nullish(v) /\ v # ""

\* const EXIT = { ... }
EXIT_OK == 0
EXIT_GENERIC_ERROR == 1
EXIT_USAGE_ERROR == 2
EXIT_AUTH_ERROR == 3
EXIT_API_ERROR == 4
EXIT_CONFIG_ERROR == 5
EXIT_NETWORK_ERROR == 6
\* process.exit(130) in promptMasked
EXIT_INTERRUPT == 130
\* no exit code yet (the process is running)
NO_EXIT == 255

DEFAULT_BASE_URL == "https://api.beget.com/api"

----------------------------------------------------------------------------
(* The profile store.  profiles is a JavaScript object: an insertion-ordered  *)
(* list of own properties name -> {login, apiKey}, on top of the properties *)
(* every object inherits from Object.prototype.                             *)

\* Bound: how many profiles a store holds in the model.
MaxProfiles == 2

\* Profile names given to auth add.  "__proto__", like "constructor", is a
\* name that every object inherits from Object.prototype.
AddNames == {"a", "b", "__proto__"}
ObjectPrototypeKeys == {"constructor", "__proto__"}

\* Object.prototype.__proto__ is an accessor: assigning an object to
\* profiles["__proto__"] calls its setter, which replaces the prototype of
\* profiles and creates no own property.
ProtoSetterKey == "__proto__"

\* A document in memory.  isArray: JSON.parse returned an array, which then
\* carries profiles and activeProfile as extra properties; version 0 stands
\* for a document without a version property.
EmptyStore ==
    [version |-> 1, activeProfile |-> NULL, profiles |-> <<>>, isArray |-> FALSE]

\* The config file: absent, a JSON object ("doc"), or content that is not a
\* store: not JSON ("malformed"), the JSON value null or a primitive ("null"),
\* a JSON array ("array"), or a file that cannot be read ("unreadable").
AbsentFile == [kind |-> "absent", activeProfile |-> NULL, profiles |-> <<>>]
BadFile(kind) == [kind |-> kind, activeProfile |-> NULL, profiles |-> <<>>]
BadFiles == { BadFile(k) : k \in {"malformed", "null", "array", "unreadable"} }

\* JSON.stringify(cfg): the extra properties of an array are not written
FileOf(doc) ==
    IF doc.isArray THEN BadFile("array")
    ELSE [kind |-> "doc", activeProfile |-> doc.activeProfile,
          profiles |-> doc.profiles]

\* Object.keys(profiles)
Keys(profiles) == [i \in 1..Len(profiles) |-> profiles[i].name]
KeySet(profiles) == {profiles[i].name : i \in 1..Len(profiles)}
HasOwn(profiles, n) == n \in KeySet(profiles)
IndexOf(profiles, n) == CHOOSE i \in 1..Len(profiles) : profiles[i].name = n

\* profiles[n]: the own property, else the inherited one, else undefined
GetProp(profiles, n) ==
    IF HasOwn(profiles, n)
    THEN [kind |-> "own", login |-> profiles[IndexOf(profiles, n)].login,
          apiKey |-> profiles[IndexOf(profiles, n)].apiKey]
    ELSE IF n \in ObjectPrototypeKeys
    THEN [kind |-> "inherited", login |-> UNDEF, apiKey |-> UNDEF]
    ELSE [kind |-> "undefined", login |-> UNDEF, apiKey |-> UNDEF]

\* !!profiles[n]
TruthyProp(profiles, n) == GetProp(profiles, n).kind # "undefined"

\* profiles[n] = {login, apiKey}: an existing key keeps its place, and the
\* inherited setter takes the assignment to "__proto__"
SetProp(profiles, n, login, apiKey) ==
    LET p == [name |-> n, login |-> login, apiKey |-> apiKey]
    IN  IF HasOwn(profiles, n)
        THEN [profiles EXCEPT ![IndexOf(profiles, n)] = p]
        ELSE IF n = ProtoSetterKey THEN profiles
        ELSE Append(profiles, p)

\* delete profiles[n]
DeleteProp(profiles, n) ==
    SelectSeq(profiles, LAMBDA p : p.name # n)

\* faulty variant: the first key, even when it is the one being removed
FindFirstKey(profiles, n) ==
    IF Len(profiles) = 0 THEN NULL ELSE Keys(profiles)[1]

\* Object.keys(profiles).find((k) => k !== n) ?? null
FindOtherKey(profiles, n) ==
    LET others == SelectSeq(Keys(profiles), LAMBDA k : k # n)
    IN  IF Len(others) = 0 THEN NULL ELSE others[1]

\* readConfig throws CONFIG_ERROR: readFile fails other than with ENOENT,
\* JSON.parse fails, or `parsed.profiles ??= {}` fails on null or a primitive
\* (a TypeError, caught by the same catch)
readConfigThrows(file) == file.kind \in {"malformed", "null", "unreadable"}

\* readConfig: an absent file is the empty store; an array comes back with
\* profiles = {} and activeProfile = null set on it
readConfig(file) ==
    IF file.kind = "absent" \/ readConfigThrows(file)
    THEN EmptyStore
    ELSE IF file.kind = "array"
    THEN [version |-> 0, activeProfile |-> NULL, profiles |-> <<>>,
          isArray |-> TRUE]
    ELSE [version |-> 1, activeProfile |-> file.activeProfile,
          profiles |-> file.profiles, isArray |-> FALSE]

----------------------------------------------------------------------------
(* resolveCredentials(globalOpts, cfg), reading process.env *)

resolveCredentials(i, c) ==
    LET selectedProfile == Coalesce(i.gProfile, Coalesce(i.eProfile, c.activeProfile))
        profile == IF Truthy(selectedProfile)
                   THEN GetProp(c.profiles, selectedProfile)
                   ELSE [kind |-> "undefined", login |-> UNDEF, apiKey |-> UNDEF]
        login == Coalesce(i.gLogin, Coalesce(i.eLogin, profile.login))
        apiKey == Coalesce(i.ePassword, Coalesce(i.eKey, profile.apiKey))
        baseUrl == Coalesce(i.gBaseUrl, Coalesce(i.eBaseUrl, DEFAULT_BASE_URL))
    IN  IF ~Truthy(login) \/ ~Truthy(apiKey)
        THEN [state |-> "threw", code |-> EXIT_AUTH_ERROR, login |-> login,
              apiKey |-> apiKey, baseUrl |-> baseUrl,
              selectedProfile |-> selectedProfile]
        ELSE [state |-> "returned", code |-> EXIT_OK, login |-> login,
              apiKey |-> apiKey, baseUrl |-> baseUrl,
              selectedProfile |-> selectedProfile]

NoCreds ==
    [state |-> "none", code |-> EXIT_OK, login |-> UNDEF, apiKey |-> UNDEF,
     baseUrl |-> UNDEF, selectedProfile |-> UNDEF]

----------------------------------------------------------------------------
(* One invocation: argv, process.env and the terminal.  Values a command   *)
(* does not take stay at their defaults.                                   *)

NoResponse ==
    [fetch |-> "none", ok |-> FALSE, body |-> "none", status |-> UNDEF,
     error_code |-> UNDEF, error_text |-> UNDEF, answer |-> "undefined",
     aStatus |-> UNDEF, result |-> UNDEF, errors |-> <<>>]

NoInv ==
    [cmd |-> "none", name |-> UNDEF,
     section |-> UNDEF, method |-> UNDEF, inputData |-> UNDEF,
     mutate |-> FALSE, risky |-> FALSE,
     dryRun |-> FALSE, yes |-> FALSE, noInputFlag |-> FALSE, cmdLogin |-> UNDEF,
     gProfile |-> UNDEF, gLogin |-> UNDEF, gBaseUrl |-> UNDEF, gYes |-> FALSE,
     eProfile |-> UNDEF, eLogin |-> UNDEF, ePassword |-> UNDEF, eKey |-> UNDEF,
     eBaseUrl |-> UNDEF,
     stdinTTY |-> FALSE, stdoutTTY |-> FALSE,
     typedLine |-> UNDEF, typedLogin |-> UNDEF, typedSecret |-> UNDEF,
     needsSecret |-> FALSE, secretEnv |-> UNDEF, fsWritable |-> TRUE,
     response |-> NoResponse]

NoOut == [exit |-> NO_EXIT, stdout |-> <<>>, stderr |-> <<>>]

----------------------------------------------------------------------------
(* Stores the auth commands produce (see Spec), used where a command only  *)
(* reads the store.                                                        *)

ProfA == [name |-> "a", login |-> "La", apiKey |-> "Sa"]
ProfB == [name |-> "b", login |-> "Lb", apiKey |-> "Sb"]

KnownFiles ==
    { AbsentFile,
      [kind |-> "doc", activeProfile |-> "a", profiles |-> <<ProfA>>],
      [kind |-> "doc", activeProfile |-> "a", profiles |-> <<ProfA, ProfB>>],
      [kind |-> "doc", activeProfile |-> "b", profiles |-> <<ProfA, ProfB>>],
      [kind |-> "doc", activeProfile |-> NULL, profiles |-> <<>>] }

----------------------------------------------------------------------------
(* SpecResolve: resolveCredentials on every combination of its inputs *)

\* no save, no masked read, no concurrent invocation under way
NoSave == [step |-> "none"]
NoReader == [pc |-> "none"]
NoProcs == <<>>

ResolveInputs ==
    { [NoInv EXCEPT !.cmd = "resolve",
                    !.gProfile = gp, !.eProfile = ep,
                    !.gLogin = gl, !.eLogin = el,
                    !.ePassword = epw, !.eKey = ek,
                    !.gBaseUrl = gb, !.eBaseUrl = eb] :
        gp \in {UNDEF, "", "b", "zz"}, ep \in {UNDEF, "", "a", "zz"},
        gl \in {UNDEF, "", "Lf"}, el \in {UNDEF, "", "Le"},
        epw \in {UNDEF, "", "Sp"}, ek \in {UNDEF, "", "Sk"},
        gb \in {UNDEF, "Uf"}, eb \in {UNDEF, "Ue"} }

InitResolve ==
    /\ disk \in KnownFiles
    /\ save = NoSave /\ reader = NoReader /\ procs = NoProcs
    /\ cfg = readConfig(disk)
    /\ pc = "resolve"
    /\ inv \in ResolveInputs
    /\ creds = NoCreds
    /\ out = NoOut
    /\ net = 0
    /\ timer = "unset"
    /\ trace = <<>>

ResolveStep ==
    /\ pc = "resolve"
    /\ UNCHANGED apart
    /\ creds' = resolveCredentials(inv, cfg)
    /\ pc' = "resolved"
    /\ UNCHANGED <<disk, cfg, inv, out, net, timer, trace>>

NextResolve == ResolveStep

SpecResolve == InitResolve /\ [][NextResolve]_vars

----------------------------------------------------------------------------
(* Terminal input.  promptLine returns answer.trim(); the gate lowercases  *)
(* it.  Both are given on the lines the model types.                       *)

TypedLines == {"", "y", "Y", " yes ", "YES", "n", "yes please"}

\* String.prototype.trim
Trim(s) == CASE s = " yes " -> "yes" [] s = " " -> "" [] OTHER -> s

\* String.prototype.toLowerCase
ToLowerCase(s) == CASE s = "Y" -> "y" [] s = "YES" -> "yes" [] OTHER -> s

\* promptLine(query)
promptLine(typed) == Trim(typed)

----------------------------------------------------------------------------
(* ensureRiskConfirmation({cmdOpts, globalOpts, title}) *)

\* faulty variant: the terminal is checked before --yes
ensureRiskConfirmationTtyFirst(i) ==
    IF ~i.stdinTTY \/ ~i.stdoutTTY THEN "throw"
    ELSE IF i.yes \/ i.gYes THEN "pass"
    ELSE "prompt"

\* up to the prompt: returns, throws, or asks
ensureRiskConfirmation(i) ==
    IF i.yes \/ i.gYes THEN "pass"
    ELSE IF ~i.stdinTTY \/ ~i.stdoutTTY THEN "throw"
    ELSE "prompt"

\* faulty variant: the answer is compared as it was typed
riskAnswerExact(typed) == typed \in {"y", "yes"}

\* ['y', 'yes'].includes(ans)
riskAnswerOk(typed) == ToLowerCase(promptLine(typed)) \in {"y", "yes"}

----------------------------------------------------------------------------
(* callBeget: what the call makes of the server's response *)

CallThrew(code, prefix, text, details) ==
    [state |-> "threw", code |-> code, prefix |-> prefix, text |-> text,
     details |-> details, result |-> UNDEF]

\* faulty variant: the body of a non-2xx response is interpreted too
ResOkAlways(r) == TRUE

\* res.ok
ResOk(r) == r.ok

\* faulty variant: every outer failure is an API error
OuterFailureAlwaysApi(r) == EXIT_API_ERROR

\* payload.error_code === 'AUTH_ERROR' ? EXIT.AUTH_ERROR : EXIT.API_ERROR
OuterFailureCode(r) ==
    IF r.error_code = "AUTH_ERROR" THEN EXIT_AUTH_ERROR ELSE EXIT_API_ERROR

\* faulty variant: the inner status is not consulted
AnswerStatusIgnored(r) == TRUE

\* !(!answer || answer.status !== 'success')
AnswerOk(r) == r.answer # "undefined" /\ r.aStatus = "success"

NoErr == [error_text |-> UNDEF, error_code |-> UNDEF]

\* faulty variant: the last error of the list is reported
lastErr(r) ==
    IF r.answer = "object" /\ Len(r.errors) > 0 THEN r.errors[Len(r.errors)]
    ELSE NoErr

\* answer?.errors?.[0]
firstErr(r) ==
    IF r.answer = "object" /\ Len(r.errors) > 0 THEN r.errors[1] ELSE NoErr

callBeget(r) ==
    IF r.fetch = "abort"
    THEN CallThrew(EXIT_NETWORK_ERROR, "Network timeout after", "ms", UNDEF)
    ELSE IF r.fetch = "fault"
    THEN CallThrew(EXIT_NETWORK_ERROR, "Network error: ", "fault", UNDEF)
    ELSE IF ~ResOk(r)
    THEN CallThrew(EXIT_NETWORK_ERROR, "HTTP ", "status", UNDEF)
    ELSE IF r.body = "nonjson"
    THEN CallThrew(EXIT_API_ERROR, "API returned non-JSON response", "", UNDEF)
    ELSE IF r.body = "null"
    THEN \* payload.status on null: a TypeError, not a CliError
         [state |-> "typeerror", code |-> EXIT_GENERIC_ERROR, prefix |-> "",
          text |-> "TypeError", details |-> UNDEF, result |-> UNDEF]
    ELSE IF r.status # "success"
    THEN CallThrew(OuterFailureCode(r), "Beget API error: ",
                   Coalesce(r.error_text, "unknown error"), r.error_code)
    ELSE IF ~AnswerOk(r)
    THEN CallThrew(EXIT_API_ERROR, "Method failed: ",
                   Coalesce(firstErr(r).error_text, "unknown method error"),
                   firstErr(r).error_code)
    ELSE [state |-> "returned", code |-> EXIT_OK, prefix |-> "", text |-> "",
          details |-> UNDEF, result |-> r.result]

\* What a server (or the network) can answer.
Envelope(status, code, text, answer, aStatus, result, errors) ==
    [fetch |-> "response", ok |-> TRUE, body |-> "object", status |-> status,
     error_code |-> code, error_text |-> text, answer |-> answer,
     aStatus |-> aStatus, result |-> result, errors |-> errors]

Err1 == [error_text |-> "x", error_code |-> "Y"]
Err2 == [error_text |-> "x2", error_code |-> "AUTH_ERROR"]

Responses ==
    { [NoResponse EXCEPT !.fetch = "abort"], [NoResponse EXCEPT !.fetch = "fault"],
      [NoResponse EXCEPT !.fetch = "response", !.ok = TRUE, !.body = "nonjson"],
      [NoResponse EXCEPT !.fetch = "response", !.ok = TRUE, !.body = "null"],
      [Envelope("error", "AUTH_ERROR", "denied", "undefined", UNDEF, UNDEF, <<>>)
         EXCEPT !.ok = FALSE] }
    \cup { Envelope(st, code, text, "undefined", UNDEF, UNDEF, <<>>) :
              st \in {"error", UNDEF}, code \in {UNDEF, "AUTH_ERROR", "E1"},
              text \in {UNDEF, "denied"} }
    \cup { Envelope("success", UNDEF, UNDEF, "undefined", UNDEF, UNDEF, <<>>) }
    \cup { Envelope("success", UNDEF, UNDEF, "object", ast, "r1", errs) :
              ast \in {"error", UNDEF}, errs \in {<<>>, <<Err1>>, <<Err2, Err1>>} }
    \cup { Envelope("success", UNDEF, UNDEF, "object", "success", res, <<>>) :
              res \in {"r1", UNDEF} }

----------------------------------------------------------------------------
(* Secrets: the masked prompt and getSecret *)

\* cmdOpts.noInput: commander stores '--no-input' as cmdOpts.input = false,
\* so cmdOpts.noInput is undefined whether or not the flag is given
cmdOptsNoInput(i) == FALSE

\* What the user types at the masked prompt, ended by Enter, or Ctrl-C.
INTERRUPT == "<ctrl-c>"
MaskedKeys == {"Sb", " ", INTERRUPT}

\* promptMasked(query)
promptMasked(i) ==
    IF ~i.stdinTTY
    THEN [state |-> "threw", code |-> EXIT_USAGE_ERROR, value |-> UNDEF]
    ELSE IF i.typedSecret = INTERRUPT
    THEN [state |-> "exit", code |-> EXIT_INTERRUPT, value |-> UNDEF]
    ELSE [state |-> "returned", code |-> EXIT_OK, value |-> Trim(i.typedSecret)]

\* faulty variant: with --dry-run the secret is not asked for
getSecretUnlessDryRun(i) ==
    IF Truthy(i.secretEnv) \/ i.dryRun
    THEN [state |-> "returned", code |-> EXIT_OK, value |-> i.secretEnv]
    ELSE IF cmdOptsNoInput(i)
    THEN [state |-> "threw", code |-> EXIT_USAGE_ERROR, value |-> UNDEF]
    ELSE promptMasked(i)

\* getSecret({cmdOpts, envKeys, prompt}); secretEnv is the value of the
\* command's environment candidate
getSecret(i) ==
    IF Truthy(i.secretEnv)
    THEN [state |-> "returned", code |-> EXIT_OK, value |-> i.secretEnv]
    ELSE IF cmdOptsNoInput(i)
    THEN [state |-> "threw", code |-> EXIT_USAGE_ERROR, value |-> UNDEF]
    ELSE promptMasked(i)

\* getSecret reads the keyboard
SecretIsRead(i) ==
    i.needsSecret /\ ~Truthy(i.secretEnv) /\ ~cmdOptsNoInput(i) /\ i.stdinTTY

----------------------------------------------------------------------------
(* Output: printResult writes one value to stdout, printError one error to *)
(* stderr; the main handler turns a thrown error into the exit code.       *)

Printed(kind, section, method, inputData, value) ==
    [kind |-> kind, section |-> section, method |-> method,
     inputData |-> inputData, value |-> value]

\* { dryRun: true, section, method, inputData: inputData ?? null, ... }
DryRunDescription(i) ==
    Printed("dryRun", i.section, i.method, Coalesce(i.inputData, NULL), UNDEF)

\* faulty variant: every error exits with the generic code
FailedAlwaysGeneric(code, text, details) ==
    [exit |-> EXIT_GENERIC_ERROR, stdout |-> <<>>,
     stderr |-> <<[message |-> text, details |-> details]>>]

\* the catch block of the main function: a CliError exits with its code
Failed(code, text, details) ==
    [exit |-> code, stdout |-> <<>>,
     stderr |-> <<[message |-> text, details |-> details]>>]

Succeeded(printed) == [exit |-> EXIT_OK, stdout |-> <<printed>>, stderr |-> <<>>]

----------------------------------------------------------------------------
(* SpecPipeline: one API command through executeApi *)

\* Four rows of the command table: a read, a mutation, a risky mutation and
\* a mutation that takes a feature password (BEGET_FTP_PASSWORD).
AccountInfo ==
    [NoInv EXCEPT !.cmd = "api", !.section = "user", !.method = "getAccountInfo"]
DomainsAddVirtual ==
    [NoInv EXCEPT !.cmd = "api", !.section = "domain", !.method = "addVirtual",
                  !.inputData = "{hostname,zone_id}", !.mutate = TRUE]
DomainsDelete ==
    [NoInv EXCEPT !.cmd = "api", !.section = "domain", !.method = "delete",
                  !.inputData = "{id}", !.mutate = TRUE, !.risky = TRUE]

FtpAdd ==
    [NoInv EXCEPT !.cmd = "api", !.section = "ftp", !.method = "add",
                  !.inputData = "{suffix,homedir,password}", !.mutate = TRUE,
                  !.needsSecret = TRUE]

\* --dry-run exists on mutating commands, --yes on risky ones
ApiCommandLines ==
    { AccountInfo }
    \cup { [DomainsAddVirtual EXCEPT !.dryRun = d] : d \in BOOLEAN }
    \cup { [DomainsDelete EXCEPT !.dryRun = d, !.yes = y] : d, y \in BOOLEAN }

ApiInvocations ==
    { [c EXCEPT !.gYes = gy, !.gProfile = gp, !.eProfile = ep, !.eLogin = el,
                !.ePassword = epw, !.stdinTTY = ti, !.stdoutTTY = to] :
        c \in ApiCommandLines, gy \in BOOLEAN,
        gp \in {UNDEF, "b", "zz"}, ep \in {UNDEF, "zz"},
        el \in {UNDEF, "Le"}, epw \in {UNDEF, "Sp"},
        ti \in BOOLEAN, to \in BOOLEAN }

\* ftp add: --dry-run, --no-input, BEGET_FTP_PASSWORD and the keyboard
SecretInvocations ==
    { [FtpAdd EXCEPT !.dryRun = d, !.noInputFlag = ni, !.secretEnv = se,
                     !.typedSecret = ts, !.eLogin = el, !.ePassword = epw,
                     !.stdinTTY = ti, !.stdoutTTY = to] :
        d \in BOOLEAN, ni \in BOOLEAN, se \in {UNDEF, "", "Pf"},
        ts \in MaskedKeys \cup {UNDEF},
        el \in {UNDEF, "Le"}, epw \in {UNDEF, "Sp"},
        ti \in BOOLEAN, to \in BOOLEAN }

\* faulty variant: --dry-run is not consulted
DryRunIgnored(i) == FALSE

\* if (mutate && cmdOpts.dryRun)
DryRunRequested(i) == i.mutate /\ i.dryRun

\* faulty variant: the gate guards the wrong commands
GateOnReadsOnly(i) == ~i.mutate /\ i.risky

\* if (mutate && risky)
GateRequired(i) == i.mutate /\ i.risky

\* a process starts: argv, environment and terminal are fixed
ApiStart ==
    /\ pc = "idle"
    /\ UNCHANGED apart
    /\ \E i \in ApiInvocations \cup SecretInvocations :
          \* the keyboard is read exactly when the masked prompt reads it
          /\ (i.typedSecret # UNDEF) <=> SecretIsRead(i)
          /\ inv' = i
    /\ pc' = "read"
    /\ UNCHANGED <<disk, cfg, creds, out, net, timer, trace>>

\* the command handler: getSecret where the command takes a password, then
\* executeApi from readConfig to its first wait on the terminal or the network
ApiRun ==
    /\ pc = "read"
    /\ UNCHANGED apart
    /\ LET secret == IF inv.needsSecret THEN getSecret(inv)
                     ELSE [state |-> "skipped", code |-> EXIT_OK, value |-> UNDEF]
           ts == IF ~inv.needsSecret THEN <<>>
                 ELSE IF SecretIsRead(inv) THEN <<"getSecret", "promptMasked">>
                 ELSE <<"getSecret">>
           c == readConfig(disk)
           r == resolveCredentials(inv, c)
           t == ts \o <<"readConfig", "resolveCredentials">>
       IN  IF secret.state = "threw"
           THEN /\ out' = Failed(secret.code, "Cannot prompt for secret", UNDEF)
                /\ pc' = "done"
                /\ trace' = ts \o <<"stderr">>
                /\ UNCHANGED <<cfg, creds, net, timer>>
           ELSE IF secret.state = "exit"
           THEN /\ out' = [exit |-> secret.code, stdout |-> <<>>, stderr |-> <<>>]
                /\ pc' = "done"
                /\ trace' = ts
                /\ UNCHANGED <<cfg, creds, net, timer>>
           ELSE IF readConfigThrows(disk)
           THEN /\ out' = Failed(EXIT_CONFIG_ERROR, "Failed to read config", UNDEF)
                /\ pc' = "done"
                /\ trace' = ts \o <<"readConfig", "readFailed", "stderr">>
                /\ UNCHANGED <<cfg, creds, net, timer>>
           ELSE
           /\ cfg' = c
           /\ creds' = r
           /\ IF r.state = "threw"
              THEN /\ out' = Failed(r.code, "Missing Beget credentials", UNDEF)
                   /\ pc' = "done"
                   /\ net' = net
                   /\ timer' = timer
                   /\ trace' = t \o <<"stderr">>
              ELSE IF DryRunRequested(inv)
              THEN /\ out' = Succeeded(DryRunDescription(inv))
                   /\ pc' = "done"
                   /\ net' = net
                   /\ timer' = timer
                   /\ trace' = t \o <<"dryRun", "stdout">>
              ELSE IF GateRequired(inv) /\ ensureRiskConfirmation(inv) = "throw"
              THEN /\ out' = Failed(EXIT_USAGE_ERROR, "is risky; run with --yes", UNDEF)
                   /\ pc' = "done"
                   /\ net' = net
                   /\ timer' = timer
                   /\ trace' = t \o <<"gate", "stderr">>
              ELSE IF GateRequired(inv) /\ ensureRiskConfirmation(inv) = "prompt"
              THEN /\ out' = out
                   /\ pc' = "confirm"
                   /\ net' = net
                   /\ timer' = timer
                   /\ trace' = t \o <<"gate", "prompt">>
              ELSE \* callBeget: setTimeout, then fetch
                   /\ out' = out
                   /\ pc' = "fetch"
                   /\ net' = net + 1
                   /\ timer' = "armed"
                   /\ trace' = t \o (IF GateRequired(inv)
                                      THEN <<"gate", "gatePassed">> ELSE <<>>)
                                 \o <<"fetch">>
    /\ UNCHANGED <<disk, inv>>

\* the user answers the confirmation prompt
ApiConfirm ==
    /\ pc = "confirm"
    /\ UNCHANGED apart
    /\ \E typed \in TypedLines :
          /\ inv' = [inv EXCEPT !.typedLine = typed]
          /\ IF riskAnswerOk(typed)
             THEN /\ pc' = "fetch"
                  /\ net' = net + 1
                  /\ timer' = "armed"
                  /\ out' = out
                  /\ trace' = trace \o <<"gatePassed", "fetch">>
             ELSE /\ pc' = "done"
                  /\ net' = net
                  /\ timer' = timer
                  /\ out' = Failed(EXIT_USAGE_ERROR, "Cancelled by user", UNDEF)
                  /\ trace' = trace \o <<"stderr">>
    /\ UNCHANGED <<disk, cfg, creds>>

\* what callBeget's outcome makes of the process: printResult or the main
\* handler's printError and exit
Emit(o) ==
    IF o.state = "returned"
    THEN /\ out' = Succeeded(Printed("result", inv.section, inv.method,
                                     UNDEF, o.result))
         /\ trace' = trace \o <<"stdout">>
    ELSE /\ out' = Failed(o.code, o.prefix \o o.text, o.details)
         /\ trace' = trace \o <<"stderr">>

\* faulty variant: a failed call is issued again
AfterCallRetries(o) == IF o.state = "returned" THEN "done" ELSE "fetch"

\* where the invocation stands once callBeget has settled: executeApi returns
\* callBeget's promise as it is, the command prints or main reports and exits
AfterCall(o) == "done"

\* the timer fires while fetch is pending: controller.abort(), fetch rejects
\* with an AbortError
ApiTimeout ==
    /\ pc = "fetch"
    /\ UNCHANGED apart
    /\ timer = "armed"
    /\ LET r == [NoResponse EXCEPT !.fetch = "abort"]
       IN  /\ inv' = [inv EXCEPT !.response = r]
           /\ Emit(callBeget(r))
           /\ pc' = AfterCall(callBeget(r))
    /\ timer' = "fired"
    /\ UNCHANGED <<disk, cfg, creds, net>>

\* fetch settles by itself: it rejects (a fault) or resolves with the status
\* line and the headers; the finally block clears the timer
ApiRespond ==
    /\ pc = "fetch"
    /\ UNCHANGED apart
    /\ \E r \in Responses :
          /\ r.fetch # "abort"
          /\ inv' = [inv EXCEPT !.response = r]
          /\ IF r.fetch = "fault" \/ ~ResOk(r)
             THEN /\ Emit(callBeget(r))
                  /\ pc' = AfterCall(callBeget(r))
             ELSE /\ pc' = "body"
                  /\ UNCHANGED <<out, trace>>
    /\ timer' = "cleared"
    /\ UNCHANGED <<disk, cfg, creds, net>>

\* res.json() settles: the rest of callBeget, the command prints, main exits
ApiSettle ==
    /\ pc = "body"
    /\ UNCHANGED apart
    /\ Emit(callBeget(inv.response))
    /\ pc' = AfterCall(callBeget(inv.response))
    /\ UNCHANGED <<disk, cfg, inv, creds, net, timer>>

InitPipeline ==
    /\ disk \in KnownFiles \cup BadFiles
    /\ save = NoSave /\ reader = NoReader /\ procs = NoProcs
    /\ cfg = EmptyStore
    /\ pc = "idle"
    /\ inv = NoInv
    /\ creds = NoCreds
    /\ out = NoOut
    /\ net = 0
    /\ timer = "unset"
    /\ trace = <<>>

NextPipeline ==
    ApiStart \/ ApiRun \/ ApiConfirm \/ ApiTimeout \/ ApiRespond \/ ApiSettle

SpecPipeline == InitPipeline /\ [][NextPipeline]_vars

----------------------------------------------------------------------------
(* The auth commands.  Each handler runs from readConfig to its exit. *)

\* What the user types at the login prompt.
TypedLogins == {"Lb", " "}

\* writeConfig(configPath, cfg): the whole document replaces the file
writeConfig(doc) == FileOf(doc)

Handled(o, file, t) == [out |-> o, file |-> file, trace |-> t]

\* readConfig threw: the main handler prints the CliError and exits 5
ReadFailed(file) ==
    Handled(Failed(EXIT_CONFIG_ERROR, "Failed to read config", UNDEF), file,
            <<"readConfig", "readFailed", "stderr">>)

\* writeConfig threw (mkdir or writeFile rejected): the error is not a CliError,
\* the main handler prints it and exits 1; the file is as it was
WriteFailed(file, t) ==
    Handled(Failed(EXIT_GENERIC_ERROR, "EACCES", UNDEF), file,
            t \o <<"writeFailed", "stderr">>)

\* await writeConfig(cfgPath, doc), then printResult(printed)
WriteThenPrint(i, file, doc, printed, t) ==
    IF ~i.fsWritable THEN WriteFailed(file, t)
    ELSE Handled(Succeeded(printed), writeConfig(doc), t \o <<"writeConfig", "stdout">>)

\* auth add <name>: the secret that is asked for, if any
AddEnvKey(i) == Coalesce(i.ePassword, i.eKey)
AddAsksSecret(i) == Nullish(AddEnvKey(i)) /\ ~cmdOptsNoInput(i)
AddReadsSecret(i) == AddAsksSecret(i) /\ i.stdinTTY
AddAsksLogin(i) ==
    /\ ~Truthy(Coalesce(i.cmdLogin, i.gLogin)) /\ ~cmdOptsNoInput(i)
    /\ (AddAsksSecret(i) => promptMasked(i).state = "returned")

\* the handler of auth add <name>
authAdd(i, file) ==
    LET c == readConfig(file)
        masked == IF AddAsksSecret(i) THEN promptMasked(i)
                  ELSE [state |-> "skipped", code |-> EXIT_OK, value |-> NULL]
        tm == IF AddReadsSecret(i) THEN <<"promptMasked">> ELSE <<>>
        apiKey == IF ~Nullish(AddEnvKey(i)) THEN AddEnvKey(i) ELSE masked.value
        login == IF AddAsksLogin(i) THEN promptLine(i.typedLogin)
                 ELSE Coalesce(i.cmdLogin, i.gLogin)
        tl == IF AddAsksLogin(i) THEN <<"promptLine">> ELSE <<>>
        next == [c EXCEPT !.profiles = SetProp(c.profiles, i.name, login, apiKey),
                          !.activeProfile = IF ~Truthy(c.activeProfile)
                                            THEN i.name ELSE c.activeProfile]
    IN  IF readConfigThrows(file) THEN ReadFailed(file)
        ELSE IF masked.state = "threw"
        THEN Handled(Failed(masked.code, "Cannot prompt for secret", UNDEF), file,
                     <<"readConfig", "stderr">>)
        ELSE IF masked.state = "exit"
        THEN Handled([exit |-> masked.code, stdout |-> <<>>, stderr |-> <<>>], file,
                     <<"readConfig">> \o tm)
        ELSE IF ~Truthy(login) \/ ~Truthy(apiKey)
        THEN Handled(Failed(EXIT_USAGE_ERROR, "Missing login/api key", UNDEF), file,
                     <<"readConfig">> \o tm \o tl \o <<"stderr">>)
        ELSE IF i.dryRun
        THEN Handled(Succeeded(Printed("auth.add.dryRun", UNDEF, UNDEF, i.name, login)),
                     file, <<"readConfig">> \o tm \o tl \o <<"stdout">>)
        ELSE WriteThenPrint(i, file, next,
                            Printed("auth.add", UNDEF, UNDEF, i.name,
                                    next.activeProfile),
                            <<"readConfig">> \o tm \o tl)

\* the handler of auth use <name>
authUse(i, file) ==
    LET c == readConfig(file)
    IN  IF readConfigThrows(file) THEN ReadFailed(file)
        ELSE IF ~TruthyProp(c.profiles, i.name)
        THEN Handled(Failed(EXIT_CONFIG_ERROR, "Profile not found", UNDEF), file,
                     <<"readConfig", "stderr">>)
        ELSE IF i.dryRun
        THEN Handled(Succeeded(Printed("auth.use.dryRun", UNDEF, UNDEF, i.name, UNDEF)),
                     file, <<"readConfig", "stdout">>)
        ELSE WriteThenPrint(i, file, [c EXCEPT !.activeProfile = i.name],
                            Printed("auth.use", UNDEF, UNDEF, i.name, i.name),
                            <<"readConfig">>)

\* the handler of auth remove <name>
authRemove(i, file) ==
    LET c == readConfig(file)
        nextActive == IF c.activeProfile = i.name
                      THEN FindOtherKey(c.profiles, i.name)
                      ELSE c.activeProfile
    IN  IF readConfigThrows(file) THEN ReadFailed(file)
        ELSE IF ~TruthyProp(c.profiles, i.name)
        THEN Handled(Failed(EXIT_CONFIG_ERROR, "Profile not found", UNDEF), file,
                     <<"readConfig", "stderr">>)
        ELSE IF i.dryRun
        THEN Handled(Succeeded(Printed("auth.remove.dryRun", UNDEF, UNDEF, i.name,
                                       nextActive)),
                     file, <<"readConfig", "stdout">>)
        ELSE WriteThenPrint(i, file,
                            [c EXCEPT !.profiles = DeleteProp(c.profiles, i.name),
                                      !.activeProfile = nextActive],
                            Printed("auth.remove", UNDEF, UNDEF, i.name, nextActive),
                            <<"readConfig">>)

\* the handler of auth list
authList(i, file) ==
    LET c == readConfig(file)
    IN  IF readConfigThrows(file) THEN ReadFailed(file)
        ELSE Handled(Succeeded(Printed("auth.list", UNDEF, UNDEF, Keys(c.profiles),
                                       c.activeProfile)),
                     file, <<"readConfig", "stdout">>)

----------------------------------------------------------------------------
(* Spec: any sequence of auth invocations on one config file, absent at    *)
(* first.  An invocation is a process; Exit ends it.                       *)

\* Names given to auth use and auth remove; "zz" is never added.
UseNames == AddNames \cup {"constructor", "zz"}

AuthAddInvocations ==
    { [NoInv EXCEPT !.cmd = "auth add", !.name = n, !.dryRun = d,
                    !.noInputFlag = ni, !.cmdLogin = cl, !.gLogin = gl,
                    !.ePassword = epw, !.eKey = ek, !.stdinTTY = ti,
                    !.typedSecret = ts, !.typedLogin = tl] :
        n \in AddNames, d \in BOOLEAN, ni \in BOOLEAN,
        cl \in {UNDEF, "La"}, gl \in {UNDEF, "Lb"},
        epw \in {UNDEF, "", "Sa"}, ek \in {UNDEF, "Sb"}, ti \in BOOLEAN,
        ts \in MaskedKeys \cup {UNDEF}, tl \in TypedLogins \cup {UNDEF} }

Run(i, h) ==
    /\ inv' = i
    /\ UNCHANGED apart
    /\ cfg' = readConfig(disk)
    /\ out' = h.out
    /\ disk' = h.file
    /\ trace' = h.trace
    /\ pc' = "done"
    /\ UNCHANGED <<creds, net, timer>>

\* the handler gets as far as writeConfig
Writes(h) == \E k \in 1..Len(h.trace) : h.trace[k] = "writeConfig"

\* The file system refuses the write (w = FALSE) only where a write is tried.
AuthAdd ==
    /\ pc = "idle"
    /\ \E i \in AuthAddInvocations, w \in BOOLEAN :
          \* the keyboard is read exactly when a prompt reads it
          /\ (i.typedSecret # UNDEF) <=> (AddReadsSecret(i) /\ ~readConfigThrows(disk))
          /\ (i.typedLogin # UNDEF) <=> (AddAsksLogin(i) /\ ~readConfigThrows(disk))
          \* process.stdin.isTTY is read by promptMasked alone
          /\ i.stdinTTY => AddAsksSecret(i)
          \* --no-input goes with the command's own --login or none
          /\ i.noInputFlag => i.gLogin = UNDEF
          /\ Len(authAdd(i, disk).file.profiles) <= MaxProfiles
          /\ w \/ Writes(authAdd(i, disk))
          /\ LET j == [i EXCEPT !.fsWritable = w]
             IN  Run(j, authAdd(j, disk))

AuthUse ==
    /\ pc = "idle"
    /\ \E n \in UseNames, d \in BOOLEAN, w \in BOOLEAN :
          LET i == [NoInv EXCEPT !.cmd = "auth use", !.name = n, !.dryRun = d]
              j == [i EXCEPT !.fsWritable = w]
          IN  /\ w \/ Writes(authUse(i, disk))
              /\ Run(j, authUse(j, disk))

AuthRemove ==
    /\ pc = "idle"
    /\ \E n \in UseNames, d \in BOOLEAN, w \in BOOLEAN :
          LET i == [NoInv EXCEPT !.cmd = "auth remove", !.name = n, !.dryRun = d]
              j == [i EXCEPT !.fsWritable = w]
          IN  /\ w \/ Writes(authRemove(i, disk))
              /\ Run(j, authRemove(j, disk))

AuthList ==
    /\ pc = "idle"
    /\ LET i == [NoInv EXCEPT !.cmd = "auth list"]
       IN  Run(i, authList(i, disk))

\* the process is gone; the file stays
Exit ==
    /\ pc = "done"
    /\ UNCHANGED apart
    /\ pc' = "idle"
    /\ inv' = NoInv
    /\ cfg' = EmptyStore
    /\ out' = NoOut
    /\ trace' = <<>>
    /\ UNCHANGED <<disk, creds, net, timer>>

Init ==
    /\ disk \in {AbsentFile} \cup BadFiles
    /\ save = NoSave /\ reader = NoReader /\ procs = NoProcs
    /\ cfg = EmptyStore
    /\ pc = "idle"
    /\ inv = NoInv
    /\ creds = NoCreds
    /\ out = NoOut
    /\ net = 0
    /\ timer = "unset"
    /\ trace = <<>>

Next == AuthAdd \/ AuthUse \/ AuthRemove \/ AuthList \/ Exit

Spec == Init /\ [][Next]_vars

----------------------------------------------------------------------------
(* Properties of the pipeline (SpecPipeline) *)

IsApi == inv.cmd = "api"
NonInteractive == ~inv.stdinTTY \/ ~inv.stdoutTTY
Happened(e) == \E k \in 1..Len(trace) : trace[k] = e

\* C1: a mutating command run with --dry-run never issues a network call,
\* whatever the credentials; when executeApi completes (returns) the command
\* prints the description tagged dryRun with the call's section, method and
\* input payload, and the process exits 0.
C1_DryRunNeverCalls ==
    (IsApi /\ inv.mutate /\ inv.dryRun) =>
        /\ net = 0
        /\ pc # "fetch"
        /\ ~Happened("fetch")
        /\ (pc = "done" /\ creds.state = "returned") =>
              /\ out.exit = EXIT_OK
              /\ out.stderr = <<>>
              /\ Len(out.stdout) = 1
              /\ out.stdout[1].kind = "dryRun"
              /\ out.stdout[1].section = inv.section
              /\ out.stdout[1].method = inv.method
              /\ out.stdout[1].inputData = inv.inputData

C1_Witness ==
    /\ IsApi /\ inv.mutate /\ inv.dryRun /\ pc = "done"
    /\ out.exit = EXIT_OK /\ Len(out.stdout) = 1 /\ out.stdout[1].kind = "dryRun"
    /\ inv.ePassword = UNDEF /\ disk.activeProfile = "a"

\* The store (absent, or a readable document) holds no profile and neither a
\* flag nor the environment gives a login or a secret.
NoCredentialsAnywhere ==
    /\ disk.kind \in {"absent", "doc"}
    /\ Len(disk.profiles) = 0
    /\ Nullish(inv.gLogin) /\ Nullish(inv.eLogin)
    /\ Nullish(inv.ePassword) /\ Nullish(inv.eKey)

\* C2: a mutating command run with --dry-run without any profile and without
\* credentials in the environment succeeds: no credential resolution is
\* attempted, the simulated payload is printed and the exit code is 0.
C2_DryRunWithoutCredentials ==
    (IsApi /\ inv.mutate /\ inv.dryRun /\ ~inv.needsSecret
       /\ NoCredentialsAnywhere /\ pc = "done") =>
        /\ out.exit = EXIT_OK
        /\ Len(out.stdout) = 1
        /\ out.stdout[1].kind = "dryRun"
        /\ ~Happened("resolveCredentials")

\* C3: a risky command invoked non-interactively without --yes (and without
\* --dry-run) fails with UsageError, exit code 2, and makes no network call,
\* whatever profiles the store and the environment hold.
C3_RiskyBlockedNonInteractive ==
    (IsApi /\ inv.mutate /\ inv.risky /\ ~inv.dryRun /\ ~inv.yes /\ ~inv.gYes
       /\ NonInteractive /\ disk.kind \in {"absent", "doc"} /\ pc = "done") =>
        /\ out.exit = EXIT_USAGE_ERROR
        /\ net = 0

\* C4: a risky command invoked non-interactively with --yes (on the command or
\* globally), without --dry-run and with resolvable credentials, passes the
\* gate without a prompt and reaches the invoker: exactly one call is issued.
C4_BypassReachesInvoker ==
    (IsApi /\ inv.mutate /\ inv.risky /\ ~inv.dryRun /\ (inv.yes \/ inv.gYes)
       /\ NonInteractive /\ creds.state = "returned") =>
        /\ pc \in {"fetch", "body", "done"}
        /\ net = 1
        /\ Happened("gatePassed")
        /\ ~Happened("prompt")
        /\ inv.typedLine = UNDEF

C4_Witness ==
    /\ IsApi /\ inv.mutate /\ inv.risky /\ ~inv.dryRun /\ inv.yes /\ ~inv.gYes
    /\ ~inv.stdinTTY /\ ~inv.stdoutTTY /\ creds.state = "returned"
    /\ pc = "done" /\ net = 1 /\ out.exit = EXIT_OK

\* C5: the gate runs after the dry-run short-circuit: a dry run never runs the
\* gate nor prompts, even without --yes in a non-interactive context; and on
\* every path of a risky command a network call happens only after the gate
\* has passed.
C5_GateOrdering ==
    /\ (IsApi /\ inv.mutate /\ inv.dryRun) =>
          /\ ~Happened("gate") /\ ~Happened("prompt") /\ pc # "confirm"
    /\ (IsApi /\ inv.mutate /\ inv.risky) =>
          /\ (net > 0 \/ pc = "fetch") => Happened("gatePassed")
          /\ \A k \in 1..Len(trace) :
                trace[k] = "fetch" =>
                    \E j \in 1..(k - 1) : trace[j] = "gatePassed"
          /\ \A k \in 1..Len(trace) :
                trace[k] = "gatePassed" =>
                    \/ inv.yes \/ inv.gYes
                    \/ /\ inv.stdinTTY /\ inv.stdoutTTY
                       /\ ToLowerCase(Trim(inv.typedLine)) \in {"y", "yes"}

C5_Witness ==
    /\ IsApi /\ inv.mutate /\ inv.risky /\ inv.dryRun /\ ~inv.yes /\ ~inv.gYes
    /\ NonInteractive /\ pc = "done" /\ out.exit = EXIT_OK /\ net = 0

\* --profile or BEGET_PROFILE names a profile
ExplicitProfileName ==
    IF ~Nullish(inv.gProfile) THEN inv.gProfile ELSE inv.eProfile

\* C8: when a profile name is given explicitly (--profile or BEGET_PROFILE)
\* and the store has no profile of that name, the command fails with
\* ConfigError (exit 5), whatever login and secret the other tiers provide.
C8_UnknownProfileIsConfigError ==
    (IsApi /\ pc = "done" /\ ~inv.needsSecret /\ Truthy(ExplicitProfileName)
       /\ ExplicitProfileName \notin KeySet(disk.profiles)) =>
        out.exit = EXIT_CONFIG_ERROR

----------------------------------------------------------------------------
(* Properties of the remote call (SpecPipeline) *)

\* the invocation issued its call and has ended
CallEnded == IsApi /\ pc = "done" /\ net = 1

\* a 2xx response whose body parsed to an object
GotEnvelope ==
    /\ CallEnded
    /\ inv.response.fetch = "response" /\ inv.response.ok
    /\ inv.response.body = "object"

BothLevelsSucceed ==
    /\ GotEnvelope
    /\ inv.response.status = "success"
    /\ inv.response.answer = "object" /\ inv.response.aStatus = "success"

\* C11: a remote call yields Success only when the outer status and
\* answer.status are both "success", and then the result is answer.result;
\* a 2xx response alone, or outer success with a missing or failed answer,
\* never yields Success.
C11_SuccessNeedsBothLevels ==
    CallEnded =>
        /\ (out.exit = EXIT_OK) <=> BothLevelsSucceed
        /\ (out.exit = EXIT_OK) =>
              /\ Len(out.stdout) = 1 /\ out.stderr = <<>>
              /\ out.stdout[1].kind = "result"
              /\ out.stdout[1].value = inv.response.result

C11_Witness ==
    /\ BothLevelsSucceed /\ inv.response.result = "r1"
    /\ out.exit = EXIT_OK /\ out.stdout[1].value = "r1"

OuterFailure == GotEnvelope /\ inv.response.status # "success"

\* C12: an outer envelope failure exits 3 exactly when error_code is
\* "AUTH_ERROR" and 4 for every other error_code; the error's message carries
\* error_text and its details (the provider code) are error_code.
C12_OuterFailureClass ==
    OuterFailure =>
        /\ (out.exit = EXIT_AUTH_ERROR) <=> (inv.response.error_code = "AUTH_ERROR")
        /\ (out.exit = EXIT_API_ERROR) <=> (inv.response.error_code # "AUTH_ERROR")
        /\ out.stdout = <<>> /\ Len(out.stderr) = 1
        /\ (inv.response.error_text # UNDEF) =>
              out.stderr[1].message = "Beget API error: " \o inv.response.error_text
        /\ out.stderr[1].details = inv.response.error_code

C12_Witness ==
    /\ OuterFailure
    /\ inv.response.error_code = "AUTH_ERROR" /\ inv.response.error_text = "denied"
    /\ out.exit = EXIT_AUTH_ERROR

InnerFailure ==
    /\ GotEnvelope /\ inv.response.status = "success"
    /\ inv.response.answer = "object" /\ inv.response.aStatus # "success"
    /\ Len(inv.response.errors) > 0

\* C13: an inner envelope failure (outer success, answer.status not
\* "success") with a non-empty answer.errors is reported with the text of the
\* first error as message, that error's code as provider code, and exit code
\* 4, even when the inner code is AUTH_ERROR.
C13_InnerFailureFirstError ==
    InnerFailure =>
        /\ out.exit = EXIT_API_ERROR
        /\ out.stdout = <<>> /\ Len(out.stderr) = 1
        /\ out.stderr[1].message =
              "Method failed: " \o inv.response.errors[1].error_text
        /\ out.stderr[1].details = inv.response.errors[1].error_code

C13_Witness ==
    /\ InnerFailure
    /\ Len(inv.response.errors) = 2
    /\ inv.response.errors[1].error_code = "AUTH_ERROR"
    /\ out.exit = EXIT_API_ERROR /\ out.stderr[1].message = "Method failed: x2"

\* C14: the call never waits without its timeout budget running: while
\* callBeget waits for the network (for the response's head or for its body)
\* the timer that aborts the call is armed.
C14_EveryWaitIsTimed ==
    (IsApi /\ pc \in {"fetch", "body"}) => timer = "armed"

TransportFailure ==
    /\ CallEnded
    /\ \/ inv.response.fetch \in {"abort", "fault"}
       \/ inv.response.fetch = "response" /\ ~inv.response.ok

C16_UnparsableBodyIsApiProtocol ==
    (CallEnded /\ inv.response.fetch = "response" /\ inv.response.ok
       /\ inv.response.body \in {"nonjson", "null"}) =>
        out.exit = EXIT_API_ERROR

----------------------------------------------------------------------------
(* Properties of the terminal states and of secret acquisition (SpecPipeline) *)

EmittedSuccess ==
    out.exit = EXIT_OK /\ Len(out.stdout) = 1 /\ out.stderr = <<>>

\* the code of the error the invocation raised, by its class (0: none):
\* usage (no secret, gate blocked or cancelled), config (store unreadable),
\* auth (no credentials), and the class callBeget gave to a failed call
RaisedCode ==
    IF inv.needsSecret /\ getSecret(inv).state = "threw" THEN EXIT_USAGE_ERROR
    ELSE IF Happened("readFailed") THEN EXIT_CONFIG_ERROR
    ELSE IF creds.state = "threw" THEN EXIT_AUTH_ERROR
    ELSE IF Happened("gate") /\ ~Happened("gatePassed") THEN EXIT_USAGE_ERROR
    ELSE IF net = 1 THEN callBeget(inv.response).code
    ELSE EXIT_OK

EmittedFailure ==
    /\ out.exit \in { EXIT_GENERIC_ERROR, EXIT_USAGE_ERROR, EXIT_AUTH_ERROR,
                      EXIT_API_ERROR, EXIT_CONFIG_ERROR, EXIT_NETWORK_ERROR }
    /\ out.stdout = <<>> /\ Len(out.stderr) = 1
    /\ out.exit = RaisedCode

\* Ctrl-C at the masked prompt: process.exit(130), nothing is emitted
Interrupted ==
    /\ out.exit = EXIT_INTERRUPT /\ out.stdout = <<>> /\ out.stderr = <<>>
    /\ inv.typedSecret = INTERRUPT
    /\ Len(trace) > 0 /\ trace[Len(trace)] = "promptMasked"

C20_NoSecretNonInteractive ==
    (IsApi /\ inv.needsSecret /\ ~Truthy(inv.secretEnv)
       /\ (inv.noInputFlag \/ NonInteractive) /\ pc = "done") =>
        /\ out.exit = EXIT_USAGE_ERROR
        /\ ~Happened("promptMasked")
        /\ net = 0

----------------------------------------------------------------------------
(* Properties of resolveCredentials (SpecResolve) *)

\* the name that selects the profile: --profile, else BEGET_PROFILE, else the
\* store's active profile
SelectedName ==
    IF ~Nullish(inv.gProfile) THEN inv.gProfile
    ELSE IF ~Nullish(inv.eProfile) THEN inv.eProfile
    ELSE cfg.activeProfile

SelectedIsStored == \E k \in 1..Len(cfg.profiles) : cfg.profiles[k].name = SelectedName
StoredProfile == cfg.profiles[CHOOSE k \in 1..Len(cfg.profiles) :
                                 cfg.profiles[k].name = SelectedName]
StoredLogin == IF SelectedIsStored THEN StoredProfile.login ELSE UNDEF
StoredSecret == IF SelectedIsStored THEN StoredProfile.apiKey ELSE UNDEF

\* the value of the highest tier that gives one (given: set, even if empty)
FirstGiven(tiers) ==
    LET given == SelectSeq(tiers, LAMBDA v : v \notin {UNDEF, NULL})
    IN  IF Len(given) = 0 THEN UNDEF ELSE given[1]

\* C6: per field, a flag value wins over an environment value, which wins
\* over the selected stored profile's value; the endpoint is the fixed
\* default only when no tier gives one.
C6_Precedence ==
    pc = "resolved" =>
        /\ creds.login = FirstGiven(<<inv.gLogin, inv.eLogin, StoredLogin>>)
        /\ creds.apiKey = FirstGiven(<<inv.ePassword, inv.eKey, StoredSecret>>)
        /\ creds.baseUrl =
              FirstGiven(<<inv.gBaseUrl, inv.eBaseUrl, DEFAULT_BASE_URL>>)
        /\ (creds.baseUrl = DEFAULT_BASE_URL) <=>
              (inv.gBaseUrl = UNDEF /\ inv.eBaseUrl = UNDEF)

C6_Witness ==
    /\ pc = "resolved"
    /\ inv.gLogin = "Lf" /\ inv.eLogin = "Le" /\ StoredLogin = "Lb"
    /\ inv.ePassword = UNDEF /\ inv.eKey = "Sk" /\ StoredSecret = "Sb"
    /\ inv.gBaseUrl = UNDEF /\ inv.eBaseUrl = "Ue"
    /\ creds.login = "Lf" /\ creds.apiKey = "Sk" /\ creds.baseUrl = "Ue"

FinalLogin == FirstGiven(<<inv.gLogin, inv.eLogin, StoredLogin>>)
FinalSecret == FirstGiven(<<inv.ePassword, inv.eKey, StoredSecret>>)

\* C7 as stated: resolution fails with AuthError (exit 3) if and only if,
\* after precedence, login or secret is undefined.
C7_FailsIffUndefined ==
    pc = "resolved" =>
        ((creds.state = "threw" /\ creds.code = EXIT_AUTH_ERROR)
            <=> (FinalLogin = UNDEF \/ FinalSecret = UNDEF))

\* C7 amended: resolution fails with AuthError (exit 3) if and only if,
\* after precedence, login or secret is undefined or the empty string.
C7_FailsIffUndefinedOrEmpty ==
    pc = "resolved" =>
        /\ creds.state \in {"threw", "returned"}
        /\ (creds.state = "threw") <=>
              (FinalLogin \in {UNDEF, ""} \/ FinalSecret \in {UNDEF, ""})
        /\ (creds.state = "threw") => creds.code = EXIT_AUTH_ERROR

C7_Witness ==
    /\ pc = "resolved"
    /\ inv.gLogin = UNDEF /\ inv.eLogin = "" /\ StoredLogin = "La"
    /\ FinalSecret = "Sa"
    /\ creds.state = "threw" /\ creds.code = EXIT_AUTH_ERROR

----------------------------------------------------------------------------
(* Properties of the store (Spec) *)

\* C9: starting from an absent config file, after any sequence of auth add /
\* use / remove invocations (successful, failed or dry-run, with any profile
\* names) the document on disk has activeProfile null or a key of profiles.
C9_ActiveProfileIsKey ==
    disk.activeProfile = NULL \/ disk.activeProfile \in KeySet(disk.profiles)

RemoveSucceeded ==
    /\ pc = "done" /\ inv.cmd = "auth remove" /\ ~inv.dryRun
    /\ out.exit = EXIT_OK

\* index of the first occurrence of an effect in the trace (0: none)
FirstAt(e) ==
    IF Happened(e) THEN CHOOSE k \in 1..Len(trace) :
                            trace[k] = e /\ \A j \in 1..(k - 1) : trace[j] # e
    ELSE 0

\* C10: auth remove of the active profile makes one of the remaining names
\* active when others exist and makes activeProfile null when it was the last
\* one; removing a non-active profile leaves activeProfile unchanged; the new
\* document is written before success is reported.  (cfg is the document the
\* command read, disk the one it left.)
C10_RemoveReassignsActive ==
    RemoveSucceeded =>
        LET remaining == KeySet(cfg.profiles) \ {inv.name}
        IN  /\ KeySet(disk.profiles) = remaining
            /\ (cfg.activeProfile = inv.name /\ remaining # {}) =>
                  disk.activeProfile \in remaining
            /\ (cfg.activeProfile = inv.name /\ remaining = {}) =>
                  disk.activeProfile = NULL
            /\ (cfg.activeProfile # inv.name) =>
                  disk.activeProfile = cfg.activeProfile
            /\ FirstAt("writeConfig") > 0
            /\ FirstAt("writeConfig") < FirstAt("stdout")
            /\ Len(out.stdout) = 1

C10_Witness ==
    /\ RemoveSucceeded
    /\ cfg.activeProfile = inv.name
    /\ Len(cfg.profiles) = 2
    /\ cfg.profiles[1].name = inv.name
    /\ disk.activeProfile = cfg.profiles[2].name

----------------------------------------------------------------------------
(* Properties of loading and saving the store (Spec) *)

\* the running command is an auth command that has ended
AuthEnded == pc = "done" /\ inv.cmd \in {"auth add", "auth use", "auth remove", "auth list"}

\* C17: loading never fails when the config file is absent and yields
\* {version: 1, activeProfile: null, profiles: {}}; when the file holds
\* anything that is not a store object (malformed content, content that is
\* not an object, an unreadable file) the command fails with ConfigError,
\* exit 5, and the file is left as it was.
C17_LoadFailsOnlyOnBadContent ==
    [][(pc = "idle" /\ pc' = "done") =>
          /\ (disk.kind = "absent") =>
                /\ cfg' = EmptyStore
                /\ \A k \in 1..Len(trace') : trace'[k] # "readFailed"
          /\ (disk \in BadFiles) =>
                /\ out'.exit = EXIT_CONFIG_ERROR
                /\ \E k \in 1..Len(trace') : trace'[k] = "readFailed"
                /\ disk' = disk]_vars

\* C18: when the store cannot be written during auth add / use / remove, the
\* command fails as a local configuration error, exit code 5.
C18_WriteFailureIsConfigError ==
    (AuthEnded /\ Happened("writeFailed")) => out.exit = EXIT_CONFIG_ERROR

----------------------------------------------------------------------------
(* auth add                                                                *)

\* auth add ran to its end on a store that could be read and written, with
\* the login from --login and the secret from the environment, no --dry-run
AddFromFlagAndEnv ==
    /\ pc = "done" /\ inv.cmd = "auth add" /\ ~inv.dryRun
    /\ Truthy(inv.cmdLogin) /\ Truthy(AddEnvKey(inv))
    /\ ~cfg.isArray /\ ~Happened("readFailed") /\ ~Happened("writeFailed")

\* the profiles stored under other names are the ones that were there
OthersKept(before, after, n) ==
    DeleteProp(after, n) = DeleteProp(before, n)

\* C21: auth add <name> with the login from --login and the secret from the
\* environment exits 0 and leaves name -> {login, secret} in the store; the
\* name becomes the active profile exactly when the store had none, and every
\* other stored profile is as it was.
C21_AddPersistsProfile ==
    AddFromFlagAndEnv =>
        /\ out.exit = EXIT_OK
        /\ disk.kind = "doc"
        /\ GetProp(disk.profiles, inv.name) =
              [kind |-> "own", login |-> inv.cmdLogin, apiKey |-> AddEnvKey(inv)]
        /\ disk.activeProfile =
              (IF cfg.activeProfile = NULL THEN inv.name ELSE cfg.activeProfile)
        /\ OthersKept(cfg.profiles, disk.profiles, inv.name)

\* the same for every name but "__proto__"
C21_AddPersistsOrdinaryName ==
    inv.name # ProtoSetterKey => C21_AddPersistsProfile

C21_Witness ==
    /\ AddFromFlagAndEnv /\ inv.name = "b"
    /\ cfg.activeProfile = "a" /\ disk.activeProfile = "a"
    /\ HasOwn(disk.profiles, "a") /\ HasOwn(disk.profiles, "b")
----------------------------------------------------------------------------
(* SpecSave: one writeConfig(configPath, cfg), system call by system call. *)
(* disk is the file as readConfig would find it, cfg the document being    *)
(* saved.  The process can be killed between any two system calls.         *)

OWNER_ONLY_DIR == "0o700"
OWNER_ONLY_FILE == "0o600"

\* modes a directory or a file made earlier can have
DirModes == {OWNER_ONLY_DIR, "0o755"}
FileModes == {OWNER_ONLY_FILE, "0o644"}
NO_MODE == "absent"

\* documents handed to writeConfig
SavedDocs == { readConfig(f) : f \in KnownFiles }

\* the bytes of the file hold at least one profile's secret
HoldsSecrets(file) == file.kind = "doc" /\ Len(file.profiles) > 0

\* a file cut short, empty included, is not JSON
CutShort == BadFile("malformed")

SaveSteps == {"mkdir", "chmodDir", "open", "write", "chmodFile"}

InitSave ==
    /\ disk \in KnownFiles
    /\ cfg \in SavedDocs
    /\ \E dm \in DirModes \cup {NO_MODE}, fm \in FileModes \cup {NO_MODE} :
          /\ (fm = NO_MODE) <=> (disk.kind = "absent")
          /\ (dm = NO_MODE) => (fm = NO_MODE)
          /\ save = [step |-> "mkdir", dirMode |-> dm, fileMode |-> fm,
                     before |-> disk, content |-> "old"]
    /\ pc = "idle"
    /\ inv = NoInv
    /\ creds = NoCreds
    /\ out = NoOut
    /\ net = 0
    /\ timer = "unset"
    /\ trace = <<>>
    /\ reader = NoReader
    /\ procs = NoProcs

SaveFrame == UNCHANGED <<cfg, pc, inv, creds, out, net, timer, trace, reader, procs>>

\* fs.mkdir(dir, { recursive: true, mode: 0o700 }): the mode is that of a
\* directory it makes; one that exists is left as it is
SaveMkdir ==
    /\ save.step = "mkdir"
    /\ save' = [save EXCEPT !.step = "chmodDir",
                            !.dirMode = IF @ = NO_MODE THEN OWNER_ONLY_DIR ELSE @]
    /\ UNCHANGED disk
    /\ SaveFrame

\* fs.chmod(dir, 0o700).catch(() => {}): a failure is dropped
SaveChmodDir ==
    /\ save.step = "chmodDir"
    /\ \E fails \in BOOLEAN :
          save' = [save EXCEPT !.step = "open",
                              !.dirMode = IF fails THEN @ ELSE OWNER_ONLY_DIR]
    /\ UNCHANGED disk
    /\ SaveFrame

\* fs.writeFile(configPath, data, { mode: 0o600 }) opens with flag 'w': the
\* file is made with the mode, or, when it exists, emptied and its mode kept
SaveOpen ==
    /\ save.step = "open"
    /\ save' = [save EXCEPT !.step = "write", !.content = "empty",
                            !.fileMode = IF @ = NO_MODE THEN OWNER_ONLY_FILE ELSE @]
    /\ disk' = CutShort
    /\ SaveFrame

\* ... then writes the data, in one write or in several
SaveWrite ==
    /\ save.step = "write"
    /\ \E whole \in BOOLEAN :
          IF whole
          THEN /\ save' = [save EXCEPT !.step = "chmodFile", !.content = "new"]
               /\ disk' = writeConfig(cfg)
          ELSE /\ save.content = "empty"
               /\ save' = [save EXCEPT !.content = "partial"]
               /\ disk' = CutShort
    /\ SaveFrame

\* fs.chmod(configPath, 0o600).catch(() => {}): a failure is dropped
SaveChmodFile ==
    /\ save.step = "chmodFile"
    /\ \E fails \in BOOLEAN :
          save' = [save EXCEPT !.step = "done",
                              !.fileMode = IF fails THEN @ ELSE OWNER_ONLY_FILE]
    /\ UNCHANGED disk
    /\ SaveFrame

\* the process is killed before its next system call
SaveKill ==
    /\ save.step \in SaveSteps
    /\ save' = [save EXCEPT !.step = "killed"]
    /\ UNCHANGED disk
    /\ SaveFrame

NextSave ==
    SaveMkdir \/ SaveChmodDir \/ SaveOpen \/ SaveWrite \/ SaveChmodFile \/ SaveKill

SpecSave == InitSave /\ [][NextSave]_vars

\* C22: a save is all-or-nothing: when the process is killed during it, the
\* file holds the complete previous document or the complete new one, never
\* an empty or partial one.
C22_SaveIsAllOrNothing ==
    save.step = "killed" => disk \in {save.before, writeConfig(cfg)}

\* the same for a save that is not killed
C22_FinishedSaveIsWhole ==
    save.step = "done" => disk = writeConfig(cfg)

\* C23: during and after a save the file never holds secrets with a mode
\* looser than owner-only, whether the save makes the file, finds it with a
\* looser mode, or fails to change its mode; and after the save the parent
\* directory is owner-only as well.
C23_NeverLooserThanOwnerOnly ==
    /\ (save.step # "none" /\ save.content # "old" /\ HoldsSecrets(disk))
          => save.fileMode = OWNER_ONLY_FILE
    /\ save.step = "done"
          => save.fileMode = OWNER_ONLY_FILE /\ save.dirMode = OWNER_ONLY_DIR

\* the part of it about a file that the save makes
C23_MadeBySaveIsOwnerOnly ==
    (save.step # "none" /\ save.before.kind = "absent" /\ save.fileMode # NO_MODE)
        => save.fileMode = OWNER_ONLY_FILE
----------------------------------------------------------------------------
(* The prompt of the risk gate (SpecPipeline) *)

\* the typed lines that read y or yes once trimmed and put in lower case
YesLines == {"y", "Y", " yes ", "YES"}

\* a risky command without --yes, on an interactive terminal, no --dry-run
AsksBeforeRisk ==
    /\ IsApi /\ inv.mutate /\ inv.risky /\ ~inv.dryRun
    /\ ~inv.yes /\ ~inv.gYes /\ inv.stdinTTY /\ inv.stdoutTTY

\* C24: a risky command without --yes on an interactive terminal issues the
\* remote call only if the answer to the prompt, trimmed and in lower case,
\* is y or yes; every other answer, the empty one included, ends with
\* UsageError (exit 2, cancelled by user) and no network call.
C24_OnlyYesPassesTheGate ==
    /\ (AsksBeforeRisk /\ net > 0) => inv.typedLine \in YesLines
    /\ (AsksBeforeRisk /\ inv.typedLine # UNDEF) =>
          IF inv.typedLine \in YesLines
          THEN net = 1 /\ Happened("gatePassed") /\ pc \in {"fetch", "body", "done"}
          ELSE /\ net = 0 /\ pc = "done" /\ ~Happened("fetch")
               /\ out = [exit |-> EXIT_USAGE_ERROR, stdout |-> <<>>,
                          stderr |-> <<[message |-> "Cancelled by user",
                                        details |-> UNDEF]>>]

C24_Witness ==
    /\ AsksBeforeRisk /\ inv.typedLine = "YES" /\ net = 1 /\ pc = "done"
    /\ out.exit = EXIT_OK

C24_WitnessCancelled ==
    /\ AsksBeforeRisk /\ inv.typedLine = "" /\ pc = "done"
    /\ out.exit = EXIT_USAGE_ERROR
----------------------------------------------------------------------------
(* One attempt per invocation (SpecPipeline) *)

\* how many times the invocation called fetch
FetchCount == Cardinality({ k \in 1..Len(trace) : trace[k] = "fetch" })

\* the call of the invocation failed
CallFailed == CallEnded /\ callBeget(inv.response).state = "threw"

\* C25: there are no retries: an invocation issues at most one remote call,
\* and a failed attempt is final: the invocation ends with it and reports the
\* failure as callBeget raised it.
C25_NoRetries ==
    IsApi =>
        /\ net <= 1 /\ FetchCount = net
        /\ out.exit # NO_EXIT => pc = "done"
        /\ CallFailed =>
              LET o == callBeget(inv.response)
              IN  /\ out = [exit |-> o.code, stdout |-> <<>>,
                             stderr |-> <<[message |-> o.prefix \o o.text,
                                           details |-> o.details]>>]
                  /\ trace[Len(trace)] = "stderr"

C25_Witness ==
    /\ CallFailed /\ out.exit = EXIT_NETWORK_ERROR /\ net = 1 /\ FetchCount = 1
----------------------------------------------------------------------------
(* What changes the config file *)

\* the step is an auth command run from start to end
AuthCommandRan == pc = "idle" /\ pc' = "done"

\* the step changed the file only as a successful auth add / use / remove
\* without --dry-run
WroteAsSuccessfulAuth ==
    disk' # disk =>
        /\ inv'.cmd \in {"auth add", "auth use", "auth remove"}
        /\ ~inv'.dryRun
        /\ out'.exit = EXIT_OK

\* auth use / auth remove named a profile the store that was read lacks
NamedUnknownProfile ==
    /\ inv'.cmd \in {"auth use", "auth remove"}
    /\ \A k \in 1..Len(trace') : trace'[k] # "readFailed"
    /\ ~HasOwn(cfg'.profiles, inv'.name)

\* C26: the config file changes only through a successful auth add / use /
\* remove without --dry-run: every auth command with --dry-run and every
\* failing auth command leave it as it was, and auth use / auth remove of a
\* profile the store lacks fail with ConfigError, exit 5.
C26_OnlySuccessfulAuthWrites ==
    [][AuthCommandRan =>
          /\ WroteAsSuccessfulAuth
          /\ NamedUnknownProfile =>
                out'.exit = EXIT_CONFIG_ERROR /\ disk' = disk]_vars

\* the part of C26 about what changes the file, without the exit code of
\* auth use / auth remove
C26_WritesOnlyBySuccessfulAuth == [][AuthCommandRan => WroteAsSuccessfulAuth]_vars

\* the same with names that Object.prototype does not define
C26_OrdinaryNames ==
    [][(AuthCommandRan /\ inv'.name \notin ObjectPrototypeKeys) =>
          /\ WroteAsSuccessfulAuth
          /\ NamedUnknownProfile =>
                out'.exit = EXIT_CONFIG_ERROR /\ disk' = disk]_vars

\* the part of C26 about the API commands (SpecPipeline): no step of the
\* pipeline changes the file
C26_PipelineLeavesStore == [][disk' = disk]_vars
----------------------------------------------------------------------------
(* The secret of a command and --dry-run (SpecPipeline) *)

\* a command that needs a secret ran with --dry-run and found none in its
\* environment candidate
DryRunWithoutSecret ==
    /\ IsApi /\ inv.needsSecret /\ inv.dryRun /\ ~Truthy(inv.secretEnv)
    /\ pc = "done"

\* the place of the first event e in the trace (0: none)
FirstOf(e) ==
    IF Happened(e) THEN CHOOSE k \in 1..Len(trace) :
                           trace[k] = e /\ \A j \in 1..(k - 1) : trace[j] # e
    ELSE 0

C27_WitnessPrompted ==
    /\ DryRunWithoutSecret /\ inv.stdinTTY /\ Happened("dryRun")
    /\ out.exit = EXIT_OK /\ trace[2] = "promptMasked"
----------------------------------------------------------------------------
(* Empty environment values (SpecResolve) *)

\* C28: an environment value that is set but empty is not treated as absent:
\* an empty BEGET_LOGIN masks the login of the selected profile, an empty
\* BEGET_API_PASSWORD masks both BEGET_API_KEY and the profile's secret, and
\* resolution fails with AuthError (exit 3) although a lower tier holds a
\* usable value.
C28_EmptyEnvMasksLowerTiers ==
    pc = "resolved" =>
        /\ (inv.gLogin = UNDEF /\ inv.eLogin = "") =>
              /\ creds.login = ""
              /\ creds.state = "threw" /\ creds.code = EXIT_AUTH_ERROR
        /\ (inv.ePassword = "") =>
              /\ creds.apiKey = ""
              /\ creds.state = "threw" /\ creds.code = EXIT_AUTH_ERROR

C28_Witness ==
    /\ pc = "resolved"
    /\ inv.gLogin = "Lf"
    /\ inv.ePassword = "" /\ inv.eKey = "Sk" /\ StoredSecret = "Sb"
    /\ creds.state = "threw" /\ creds.code = EXIT_AUTH_ERROR

C28_WitnessLogin ==
    /\ pc = "resolved"
    /\ inv.gLogin = UNDEF /\ inv.eLogin = "" /\ StoredLogin = "Lb"
    /\ inv.ePassword = "Sp"
    /\ creds.state = "threw" /\ creds.code = EXIT_AUTH_ERROR
----------------------------------------------------------------------------
(* SpecMasked: one promptMasked(query), read by read.  The keyboard gives  *)
(* a finite run of keys and then the end of the input (the terminal is     *)
(* closed): from there on readSync returns 0.                              *)

\* Bound: how many keys arrive before the end of the input.
MaxKeys == 3

CR == "CR"
LF == "LF"
ETX == "ETX"
DEL == "DEL"
BS == "BS"
MaskedChars == {"S", " "}
KeyStrokes == MaskedChars \cup {CR, LF, ETX, DEL, BS}

KeyRuns == UNION { [1..n -> KeyStrokes] : n \in 0..MaxKeys }

\* String.prototype.trim on a run of characters
RECURSIVE TrimStart(_)
TrimStart(v) ==
    IF Len(v) > 0 /\ v[1] = " " THEN TrimStart(Tail(v)) ELSE v
RECURSIVE TrimEnd(_)
TrimEnd(v) ==
    IF Len(v) > 0 /\ v[Len(v)] = " " THEN TrimEnd(SubSeq(v, 1, Len(v) - 1)) ELSE v
TrimChars(v) == TrimEnd(TrimStart(v))

InitMasked ==
    /\ \E t \in BOOLEAN, ks \in KeyRuns :
          reader = [pc |-> "start", tty |-> t, stream |-> ks, value |-> <<>>,
                    zeroRead |-> FALSE, result |-> <<>>, code |-> NO_EXIT]
    /\ disk = AbsentFile
    /\ cfg = EmptyStore
    /\ pc = "idle"
    /\ inv = NoInv
    /\ creds = NoCreds
    /\ out = NoOut
    /\ net = 0
    /\ timer = "unset"
    /\ trace = <<>>
    /\ save = NoSave
    /\ procs = NoProcs

MaskedFrame == UNCHANGED <<disk, cfg, pc, inv, creds, out, net, timer, trace, save, procs>>

\* if (!process.stdin.isTTY) throw ...; output.write(query); setRawMode(true)
MaskedStart ==
    /\ reader.pc = "start"
    /\ reader' = IF ~reader.tty
                 THEN [reader EXCEPT !.pc = "threw", !.code = EXIT_USAGE_ERROR]
                 ELSE [reader EXCEPT !.pc = "reading"]
    /\ MaskedFrame

\* one turn of while (true) in which readSync returns a byte
MaskedKey ==
    /\ reader.pc = "reading"
    /\ Len(reader.stream) > 0
    /\ LET ch == Head(reader.stream)
           rest == [reader EXCEPT !.stream = Tail(@)]
       IN  reader' =
             IF ch \in {CR, LF}
             THEN [rest EXCEPT !.pc = "returned", !.result = TrimChars(reader.value)]
             ELSE IF ch = ETX
             THEN [rest EXCEPT !.pc = "exit", !.code = EXIT_INTERRUPT]
             ELSE IF ch \in {DEL, BS}
             THEN [rest EXCEPT !.value = IF Len(@) > 0
                                        THEN SubSeq(@, 1, Len(@) - 1) ELSE @]
             ELSE [rest EXCEPT !.value = Append(@, ch)]
    /\ MaskedFrame

\* one turn in which readSync returns 0, the end of the input:
\* if (!read) continue;
MaskedZeroRead ==
    /\ reader.pc = "reading"
    /\ Len(reader.stream) = 0
    /\ reader' = [reader EXCEPT !.zeroRead = TRUE]
    /\ MaskedFrame

NextMasked == MaskedStart \/ MaskedKey \/ MaskedZeroRead

SpecMasked == InitMasked /\ [][NextMasked]_vars

\* C29: the masked secret read always terminates: it returns the trimmed
\* value at a newline or ends the process (exit 130 at an interrupt), and it
\* does not go on reading once a read has returned 0 bytes, the end of the
\* input.
C29_MaskedReadEnds ==
    /\ reader.pc = "returned" => reader.result = TrimChars(reader.value)
    /\ reader.pc = "exit" => reader.code = EXIT_INTERRUPT
    /\ reader.pc = "reading" => ~reader.zeroRead

\* once the input has ended, every further turn of the loop is a read of 0
\* bytes that leaves the loop where it was
C29_ZeroReadRepeats ==
    [][(reader.pc = "reading" /\ reader.zeroRead) => reader' = reader]_vars
----------------------------------------------------------------------------
(* SpecConcurrent: two auth invocations at the same time on one config     *)
(* file.  Each reads the file, and later replaces it with the document it  *)
(* computed from what it read; the write is one step.                      *)

Procs == {1, 2}

\* auth add / use / remove without --dry-run, secret and login given
ConcurrentInvocations ==
    { [NoInv EXCEPT !.cmd = "auth add", !.name = n, !.cmdLogin = "La",
                    !.ePassword = "Sa"] : n \in AddNames }
    \cup { [NoInv EXCEPT !.cmd = c, !.name = n] :
              c \in {"auth use", "auth remove"}, n \in UseNames }

\* the handler of the command
HandlerOf(i, file) ==
    CASE i.cmd = "auth add" -> authAdd(i, file)
      [] i.cmd = "auth use" -> authUse(i, file)
      [] i.cmd = "auth remove" -> authRemove(i, file)

IdleProc == [pc |-> "idle", inv |-> NoInv, h |-> Handled(NoOut, AbsentFile, <<>>)]

InitConcurrent ==
    /\ disk \in KnownFiles
    /\ procs = [p \in Procs |-> IdleProc]
    /\ cfg = EmptyStore
    /\ pc = "idle"
    /\ inv = NoInv
    /\ creds = NoCreds
    /\ out = NoOut
    /\ net = 0
    /\ timer = "unset"
    /\ trace = <<>>
    /\ save = NoSave
    /\ reader = NoReader

ConcurrentFrame ==
    UNCHANGED <<cfg, pc, inv, creds, out, net, timer, trace, save, reader>>

\* an invocation starts and runs up to its writeConfig: readConfig and the
\* document to write; one that does not write ends here
ConcurrentRead ==
    /\ \E p \in Procs, i \in ConcurrentInvocations :
          /\ procs[p].pc = "idle"
          /\ LET h == HandlerOf(i, disk)
             IN  procs' = [procs EXCEPT ![p] =
                             [pc |-> IF Writes(h) THEN "read" ELSE "done",
                              inv |-> i, h |-> h]]
    /\ UNCHANGED disk
    /\ ConcurrentFrame

\* writeConfig of an invocation: its document replaces the file, whatever
\* the file holds by now
ConcurrentWrite ==
    /\ \E p \in Procs :
          /\ procs[p].pc = "read"
          /\ disk' = procs[p].h.file
          /\ procs' = [procs EXCEPT ![p].pc = "done"]
    /\ ConcurrentFrame

NextConcurrent == ConcurrentRead \/ ConcurrentWrite

SpecConcurrent == InitConcurrent /\ [][NextConcurrent]_vars

\* C30: with two auth add / use / remove invocations at the same time on one
\* config file, under every interleaving each document left on disk has an
\* activeProfile that is null or a key of its profiles, even when one update
\* overwrites the other.
C30_ConcurrentActiveIsKey ==
    disk.kind = "doc" =>
        (disk.activeProfile = NULL \/ disk.activeProfile \in KeySet(disk.profiles))

\* the same when neither invocation names a property of Object.prototype
C30_OrdinaryNames ==
    (\A p \in Procs : procs[p].inv.name \notin ObjectPrototypeKeys)
        => C30_ConcurrentActiveIsKey

\* one update overwrote the other: both wrote, and the file holds the
\* document of the one that read before the other wrote
C30_WitnessLostUpdate ==
    /\ \A p \in Procs : procs[p].pc = "done" /\ Writes(procs[p].h)
    /\ procs[1].inv.cmd = "auth add" /\ procs[1].inv.name = "b"
    /\ procs[2].inv.cmd = "auth remove" /\ procs[2].inv.name = "a"
    /\ disk = procs[2].h.file
    /\ ~HasOwn(disk.profiles, "b") /\ disk.activeProfile = NULL
====
